---- MODULE Spec2Model ----
(* aesara/graph/opt_utils.py: is_same_graph_with_merge, is_same_graph and   *)
(* get_clients_at_depth, over a heap of Variables and Apply nodes.          *)
(*                                                                          *)
(* A Variable is a heap cell.  A cell whose op is "leaf" is a Variable      *)
(* without owner; a cell whose op is in Ops is the single output of an      *)
(* Apply node with that op and the cell's ordered inputs, and the node is   *)
(* identified with its output cell.  The heap is the sequence of the cells  *)
(* allocated so far: the caller's cells first, then those that             *)
(* copy.deepcopy allocates.                                                 *)
EXTENDS Integers, Sequences, FiniteSets, TLC

NumLeaves == 3
MaxNodes == 4
MaxFree == 2
MaxGivens == 2
MaxDepth == 2

Ops == {"add", "mul", "neg"}

None == 0
Output == 0

VARIABLES heap, snapshot, var1, var2, givens, pc, copied, fgraph, pending,
          rval1, rval2, in_xs, in_ys, use_equal_computations,
          node, depth, stack, yielded

vars == <<heap, snapshot, var1, var2, givens, pc, copied, fgraph, pending,
          rval1, rval2, in_xs, in_ys, use_equal_computations,
          node, depth, stack, yielded>>

Range(s) == {s[i] : i \in DOMAIN s}

FreeCell == [op |-> "free", inputs |-> <<>>]
LeafCell == [op |-> "leaf", inputs |-> <<>>]

owner(h, v) == IF h[v].op \in Ops THEN v ELSE None

\* Every Variable met walking backward from the Variables of S through
\* owner and inputs, S included.
RECURSIVE ancestors(_, _)
ancestors(h, S) ==
  LET T == S \cup UNION {Range(h[v].inputs) : v \in S}
  IN IF T = S THEN S ELSE ancestors(h, T)

graph_inputs(h, outs) == {v \in ancestors(h, outs) : owner(h, v) = None}

vars_between(h, ins, outs) == ancestors(h, outs)

\* ---- the caller's graphs ------------------------------------------------

Leaves == 1..NumLeaves
NoCells == [c \in Leaves |-> LeafCell]

\* k nodes of one binary op, the inputs of each among the cells before it
RECURSIVE Arenas(_)
Arenas(k) ==
  IF k = 0 THEN {NoCells}
  ELSE {Append(h, [op |-> "add", inputs |-> <<a, b>>]) :
          h \in Arenas(k - 1),
          a \in 1..(NumLeaves + k - 1), b \in 1..(NumLeaves + k - 1)}

\* x o1 (y o2 z) and (x o3 y) o4 z
Assoc(x, y, z, o) ==
  NoCells \o <<[op |-> o[2], inputs |-> <<y, z>>],
              [op |-> o[1], inputs |-> <<x, NumLeaves + 1>>],
              [op |-> o[3], inputs |-> <<x, y>>],
              [op |-> o[4], inputs |-> <<NumLeaves + 3, z>>]>>

\* a chain of k unary nodes over the first leaf
Chain(k) ==
  [c \in 1..(NumLeaves + k) |->
     IF c \in Leaves THEN LeafCell
     ELSE [op |-> "neg", inputs |-> <<IF c = NumLeaves + 1 THEN 1 ELSE c - 1>>]]

Allocated(h) == {c \in DOMAIN h : h[c].op # "free"}
Applies(h) == {c \in DOMAIN h : h[c].op \in Ops}

\* A dict of Variables: a sequence of <<to_replace, replace_by>> items in
\* insertion order, the keys unique.
Items(V) == {it \in V \X V : it[1] # it[2]}

RECURSIVE Dicts(_, _)
Dicts(V, n) ==
  IF n = 0 THEN {<<>>}
  ELSE Dicts(V, n - 1) \cup
       {Append(d, it) : d \in {e \in Dicts(V, n - 1) : Len(e) = n - 1},
                        it \in Items(V)}

UniqueKeys(d) == \A i, j \in DOMAIN d : d[i][1] = d[j][1] => i = j

keys(d) == {d[i][1] : i \in DOMAIN d}
values(d) == {d[i][2] : i \in DOMAIN d}
get(d, v) == IF v \in keys(d) THEN d[CHOOSE i \in DOMAIN d : d[i][1] = v][2] ELSE v

RECURSIVE Flat(_)
Flat(ss) == IF ss = <<>> THEN <<>> ELSE ss[1] \o Flat(Tail(ss))

\* Leaves are interchangeable: of the graphs that differ only by a renaming
\* of the leaves, the one that meets the leaves in increasing order is kept.
\* Every node of the heap is part of what the call names.
NodeInputs(h) == Flat([i \in 1..Cardinality(Applies(h)) |-> h[NumLeaves + i].inputs])

LeafOrder(occ) ==
  \A i \in DOMAIN occ :
    (occ[i] \in Leaves /\ occ[i] > 1) => \E j \in 1..(i - 1) : occ[j] = occ[i] - 1

Canonical(h, roots) ==
  /\ LeafOrder(NodeInputs(h) \o roots)
  /\ Applies(h) \subseteq ancestors(h, Range(roots))

\* ---- copy.deepcopy([var1, var2, givens]) --------------------------------

\* copy.copy in place of copy.deepcopy: the list is new, its Variables are not
MemoShallow(n, arg, c) == c

\* one deepcopy call for each element of the list
MemoSeparate(n, arg, c) == c + arg * n

\* The memo of one deepcopy call over a heap of n cells: the copy of cell
\* c, met while copying the element arg of the list, is the same new cell
\* whatever arg is.
Memo(n, arg, c) == c + n

Max(S) == CHOOSE m \in S : \A k \in S : k <= m

deepcopy(h, v1, v2, gv) ==
  LET n == Len(h)
      roots(arg) == IF arg = 1 THEN {v1}
                    ELSE IF arg = 2 THEN {v2} ELSE keys(gv) \cup values(gv)
      todo == UNION {{<<arg, c>> : c \in ancestors(h, roots(arg))} : arg \in 1..3}
      made == {Memo(n, t[1], t[2]) : t \in todo}
      src(j) == CHOOSE t \in todo : Memo(n, t[1], t[2]) = j
      cell(j) == LET t == src(j)
                 IN [op |-> h[t[2]].op,
                     inputs |-> [i \in DOMAIN h[t[2]].inputs |->
                                   Memo(n, t[1], h[t[2]].inputs[i])]]
  IN [heap |-> [j \in 1..Max(made \cup {n}) |->
                  IF j \in made THEN cell(j) ELSE IF j <= n THEN h[j] ELSE FreeCell],
      vars |-> <<Memo(n, 1, v1), Memo(n, 2, v2)>>,
      givens |-> [i \in DOMAIN gv |->
                    <<Memo(n, 3, gv[i][1]), Memo(n, 3, gv[i][2])>>]]

\* ---- FunctionGraph ------------------------------------------------------

ClientsIn(h, nodes, outs, v) ==
  UNION {{<<n, i>> : i \in {j \in DOMAIN h[n].inputs : h[n].inputs[j] = v}} :
           n \in nodes}
  \cup {<<Output, i>> : i \in {j \in DOMAIN outs : outs[j] = v}}

FunctionGraph(h, ins, outs) ==
  LET vs == ancestors(h, Range(outs))
  IN [inputs |-> ins,
      outputs |-> outs,
      variables |-> vs,
      clients |-> [v \in DOMAIN h |->
                     IF v \in vs THEN ClientsIn(h, vs, outs, v) ELSE {}]]

NoGraph == [inputs |-> {}, outputs |-> <<>>, variables |-> {},
            clients |-> <<>>]

\* fgraph.replace(var, new_var) on a tracked var: every client of var is
\* rewired to new_var, new_var and what it is computed from are imported,
\* and the client index follows.
replace(fg, h, var, new_var) ==
  LET cl == fg.clients[var]
      h2 == [n \in DOMAIN h |->
               [h[n] EXCEPT !.inputs =
                  [i \in DOMAIN h[n].inputs |->
                     IF <<n, i>> \in cl THEN new_var ELSE h[n].inputs[i]]]]
      outs2 == [i \in DOMAIN fg.outputs |->
                  IF <<Output, i>> \in cl THEN new_var ELSE fg.outputs[i]]
      imported == ancestors(h2, {new_var}) \ fg.variables
      cl2 == [v \in DOMAIN h |->
                ((IF v = var THEN {} ELSE fg.clients[v])
                 \cup (IF v = new_var THEN cl ELSE {}))
                \cup ClientsIn(h2, imported, <<>>, v)]
  IN IF cl = {} \/ var = new_var
     THEN [fgraph |-> fg, heap |-> h]
     ELSE [fgraph |-> [fg EXCEPT !.outputs = outs2,
                                 !.variables = @ \cup imported,
                                 !.clients = cl2],
           heap |-> h2]

\* MergeOptimizer().optimize(fgraph): while two Apply nodes of the graph
\* have the same op and the same inputs, the output of one is replaced by
\* the output of the other.  Leaves are never rewritten.
RECURSIVE MergeOptimizer(_, _)
MergeOptimizer(fg, h) ==
  LET live == {n \in ancestors(h, Range(fg.outputs)) : owner(h, n) # None}
      same == {p \in live \X live :
                 /\ p[1] < p[2]
                 /\ h[p[1]].op = h[p[2]].op
                 /\ h[p[1]].inputs = h[p[2]].inputs}
  IN IF same = {}
     THEN [fgraph |-> fg, heap |-> h]
     ELSE LET p == CHOOSE q \in same :
                     \A r \in same : q[2] > r[2] \/ (q[2] = r[2] /\ q[1] <= r[1])
              m == replace(fg, h, p[2], p[1])
          IN MergeOptimizer(m.fgraph, m.heap)

\* ---- is_same_graph_with_merge -------------------------------------------

\* the line `givens = copied[2]` left out
stale_givens(c, gv) == gv

\* givens = copied[2]
rebound_givens(c, gv) == c.givens

\* the loop left after its first turn
remaining_none(items) == <<>>

\* the items still to come once the loop body has run for the first one
remaining(items) == Tail(items)

\* the owners compared by their op, not by identity
same_owner_op(h, vars_replaced) ==
  LET o1 == owner(h, vars_replaced[1])
      o2 == owner(h, vars_replaced[2])
  IN IF o1 = None /\ o2 = None
     THEN vars_replaced[1] = vars_replaced[2]
     ELSE o1 # None /\ o2 # None /\ h[o1].op = h[o2].op

\* o1, o2 and the returned value
same_owner(h, vars_replaced) ==
  LET o1 == owner(h, vars_replaced[1])
      o2 == owner(h, vars_replaced[2])
  IN IF o1 = None /\ o2 = None
     THEN vars_replaced[1] = vars_replaced[2]
     ELSE o1 = o2

compare(fg, h, gv) ==
  same_owner(h, [i \in DOMAIN fg.outputs |-> get(gv, fg.outputs[i])])

\* for to_replace, replace_by in givens.items(): fgraph.replace(...)
RECURSIVE substitute(_, _, _)
substitute(fg, h, items) ==
  IF items = <<>> THEN [ok |-> TRUE, fgraph |-> fg, heap |-> h]
  ELSE IF items[1][1] \notin fg.variables
  THEN [ok |-> FALSE, fgraph |-> fg, heap |-> h]
  ELSE LET s == replace(fg, h, items[1][1], items[1][2])
       IN substitute(s.fgraph, s.heap, remaining(items))

\* The whole function on the heap h: whether it returned, and what.
is_same_graph_with_merge(h, v1, v2, gv) ==
  LET c == deepcopy(h, v1, v2, gv)
      fg == FunctionGraph(c.heap, graph_inputs(c.heap, Range(c.vars)), c.vars)
      s == substitute(fg, c.heap, rebound_givens(c, gv))
      m == MergeOptimizer(s.fgraph, s.heap)
  IN IF s.ok
     THEN [returned |-> TRUE, rval |-> compare(m.fgraph, m.heap, rebound_givens(c, gv))]
     ELSE [returned |-> FALSE, rval |-> FALSE]

\* ---- is_same_graph --------------------------------------------------------

all_vars(h, v) == vars_between(h, graph_inputs(h, {v}), {v})

in_var(h, v1, v2, x, k) == x \in all_vars(h, IF k = 1 THEN v1 ELSE v2)

\* the test `not inside[to_replace][1]` left out
from_var1_shared(h, v1, v2, to_replace, replace_by) ==
  /\ in_var(h, v1, v2, to_replace, 1)
  /\ in_var(h, v1, v2, replace_by, 2)
  /\ ~in_var(h, v1, v2, replace_by, 1)

\* Substitute variable in `var1` by one from `var2`.
from_var1(h, v1, v2, to_replace, replace_by) ==
  /\ in_var(h, v1, v2, to_replace, 1)
  /\ ~in_var(h, v1, v2, to_replace, 2)
  /\ in_var(h, v1, v2, replace_by, 2)
  /\ ~in_var(h, v1, v2, replace_by, 1)

\* Substitute variable in `var2` by one from `var1`.
from_var2(h, v1, v2, to_replace, replace_by) ==
  /\ in_var(h, v1, v2, to_replace, 2)
  /\ ~in_var(h, v1, v2, to_replace, 1)
  /\ in_var(h, v1, v2, replace_by, 1)
  /\ ~in_var(h, v1, v2, replace_by, 2)

RECURSIVE build_lists(_, _, _, _, _, _)
build_lists(h, v1, v2, items, xs, ys) ==
  IF items = <<>> THEN [ok |-> TRUE, in_xs |-> xs, in_ys |-> ys]
  ELSE LET to_replace == items[1][1]
           replace_by == items[1][2]
       IN IF from_var1(h, v1, v2, to_replace, replace_by)
          THEN build_lists(h, v1, v2, Tail(items),
                           Append(xs, to_replace), Append(ys, replace_by))
          ELSE IF from_var2(h, v1, v2, to_replace, replace_by)
          THEN build_lists(h, v1, v2, Tail(items),
                           Append(xs, replace_by), Append(ys, to_replace))
          ELSE [ok |-> FALSE, in_xs |-> xs, in_ys |-> ys]

\* equal_computations(xs=[x], ys=[y], in_xs, in_ys): x and y are equal when
\* the pair is one of the assumed pairs, or both are the same leaf, or both
\* are outputs of nodes with the same op whose inputs are equal pairwise.
RECURSIVE equal(_, _, _, _)
equal(h, x, y, common) ==
  \/ <<x, y>> \in common
  \/ owner(h, x) = None /\ owner(h, y) = None /\ x = y
  \/ /\ owner(h, x) # None /\ owner(h, y) # None
     /\ h[x].op = h[y].op
     /\ Len(h[x].inputs) = Len(h[y].inputs)
     /\ \A i \in DOMAIN h[x].inputs :
          equal(h, h[x].inputs[i], h[y].inputs[i], common)

equal_computations(h, x, y, xs, ys) ==
  /\ Len(xs) = Len(ys)
  /\ equal(h, x, y, {<<xs[i], ys[i]>> : i \in DOMAIN xs})

\* ---- one call of is_same_graph(var1, var2, givens) ----------------------

DictsOf(h, n) == {d \in Dicts(Allocated(h), n) : UniqueKeys(d)}

FreeCalls ==
  {c \in UNION {[heap : {h}, var1 : Allocated(h), var2 : Allocated(h),
                 givens : DictsOf(h, MaxGivens)] :
                h \in {a \in UNION {Arenas(k) : k \in 0..MaxFree} :
                         LeafOrder(NodeInputs(a))}} :
     Canonical(c.heap, <<c.var1, c.var2>> \o Flat(c.givens))}

AssocCalls ==
  UNION {[heap : {Assoc(x, y, z, o)}, var1 : {NumLeaves + 2}, var2 : {NumLeaves + 4},
          givens : DictsOf(Assoc(x, y, z, o), 1)] :
         x \in Leaves, y \in Leaves, z \in Leaves,
         o \in {<<"mul", "mul", "mul", "mul">>, <<"add", "add", "add", "add">>,
                <<"add", "mul", "mul", "add">>, <<"mul", "mul", "add", "mul">>}}

GeneratorIdle ==
  /\ node = None
  /\ depth = 0
  /\ stack = <<>>
  /\ yielded = <<>>

Init ==
  /\ \E c \in FreeCalls \cup AssocCalls :
       /\ heap = c.heap
       /\ snapshot = c.heap
       /\ var1 = c.var1
       /\ var2 = c.var2
       /\ givens = c.givens
  /\ pc = "deepcopy"
  /\ copied = [vars |-> <<>>, givens |-> <<>>]
  /\ fgraph = NoGraph
  /\ pending = <<>>
  /\ rval1 = FALSE
  /\ rval2 = FALSE
  /\ in_xs = <<>>
  /\ in_ys = <<>>
  /\ use_equal_computations = TRUE
  /\ GeneratorIdle

call == <<var1, var2, givens>>
lists == <<in_xs, in_ys, use_equal_computations>>
generator == <<node, depth, stack, yielded>>

\* copied = copy.deepcopy([var1, var2, givens])
DeepCopy ==
  /\ pc = "deepcopy"
  /\ LET c == deepcopy(heap, var1, var2, givens)
     IN /\ heap' = c.heap
        /\ copied' = [vars |-> c.vars, givens |-> rebound_givens(c, givens)]
  /\ pc' = "fgraph"
  /\ UNCHANGED <<snapshot, call, fgraph, pending, rval1, rval2, lists, generator>>

\* inputs = list(graph_inputs(vars)); fgraph = FunctionGraph(inputs, vars, clone=False)
BuildGraph ==
  /\ pc = "fgraph"
  /\ fgraph' = FunctionGraph(heap, graph_inputs(heap, Range(copied.vars)), copied.vars)
  /\ pending' = copied.givens
  /\ pc' = "replace"
  /\ UNCHANGED <<heap, snapshot, call, copied, rval1, rval2, lists, generator>>

\* one turn of the substitution loop
Replace ==
  /\ pc = "replace"
  /\ pending # <<>>
  /\ pending[1][1] \in fgraph.variables
  /\ LET s == replace(fgraph, heap, pending[1][1], pending[1][2])
     IN /\ fgraph' = s.fgraph
        /\ heap' = s.heap
  /\ pending' = remaining(pending)
  /\ UNCHANGED <<snapshot, call, pc, copied, rval1, rval2, lists, generator>>

\* fgraph.replace of a Variable the graph does not track
ReplaceRaises ==
  /\ pc = "replace"
  /\ pending # <<>>
  /\ pending[1][1] \notin fgraph.variables
  /\ pc' = "replace_raised"
  /\ UNCHANGED <<heap, snapshot, call, copied, fgraph, pending, rval1, rval2, lists, generator>>

\* MergeOptimizer().optimize(fgraph)
Merge ==
  /\ pc = "replace"
  /\ pending = <<>>
  /\ LET m == MergeOptimizer(fgraph, heap)
     IN /\ fgraph' = m.fgraph
        /\ heap' = m.heap
  /\ pc' = "compare"
  /\ UNCHANGED <<snapshot, call, copied, pending, rval1, rval2, lists, generator>>

\* rval1 = is_same_graph_with_merge(...)
Compare ==
  /\ pc = "compare"
  /\ rval1' = compare(fgraph, heap, copied.givens)
  /\ pc' = "givens"
  /\ UNCHANGED <<heap, snapshot, call, copied, fgraph, pending, rval2, lists, generator>>

\* if givens: ... else: in_xs = None; in_ys = None
BuildLists ==
  /\ pc = "givens"
  /\ LET b == build_lists(heap, var1, var2, givens, <<>>, <<>>)
     IN /\ in_xs' = b.in_xs
        /\ in_ys' = b.in_ys
        /\ use_equal_computations' = b.ok
        /\ pc' = IF b.ok THEN "equal" ELSE "return"
  /\ UNCHANGED <<heap, snapshot, call, copied, fgraph, pending, rval1, rval2, generator>>

\* rval2 = equal_computations(...); assert rval2 == rval1
CrossValidate ==
  /\ pc = "equal"
  /\ rval2' = equal_computations(heap, var1, var2, in_xs, in_ys)
  /\ pc' = IF rval2' = rval1 THEN "return" ELSE "assert_raised"
  /\ UNCHANGED <<heap, snapshot, call, copied, fgraph, pending, rval1, lists, generator>>

\* return rval1
Return ==
  /\ pc = "return"
  /\ pc' = "done"
  /\ UNCHANGED <<heap, snapshot, call, copied, fgraph, pending, rval1, rval2, lists, generator>>

Next ==
  \/ DeepCopy
  \/ BuildGraph
  \/ Replace
  \/ ReplaceRaises
  \/ Merge
  \/ Compare
  \/ BuildLists
  \/ CrossValidate
  \/ Return

Spec == Init /\ [][Next]_vars

\* ---- get_clients_at_depth(fgraph, node, depth) -----------------------------

\* node.outputs
outputs(h, n) == <<n>>

\* the test `depth > 1` in place of `depth > 0`
descends_late(d) == d > 1

\* if depth > 0
descends(d) == d > 0

\* the recursive call made with depth in place of depth - 1
same_depth(d) == d

\* depth - 1
shallower(d) == d - 1

\* if out_node == "output"
is_output(client) == client[1] = Output

\* One activation of the generator: its node and depth, the output the outer
\* loop is at, and the clients the inner loop has still to visit.
frame(fg, h, n, d, o) ==
  [node |-> n, depth |-> d, out |-> o,
   todo |-> IF descends(d) /\ o <= Len(outputs(h, n))
            THEN fg.clients[outputs(h, n)[o]] ELSE {}]

\* A FunctionGraph over one output of a caller's graph, as built or after one
\* fgraph.replace, and a chain of unary nodes whose last output is the
\* graph's output.
FreeGraphs ==
  UNION {[heap : {h}, out : Allocated(h), rewire : {<<>>} \cup Items(Allocated(h))] :
         h \in UNION {Arenas(k) : k \in 1..MaxFree}}

Rewired(g) ==
  LET fg == FunctionGraph(g.heap, graph_inputs(g.heap, {g.out}), <<g.out>>)
  IN IF g.rewire = <<>> \/ g.rewire[1] \notin fg.variables
     THEN [fgraph |-> fg, heap |-> g.heap]
     ELSE replace(fg, g.heap, g.rewire[1], g.rewire[2])

FreeTraversals ==
  UNION {[graph : {Rewired(g)}, node : Applies(g.heap), depth : (0 - 1)..MaxDepth] :
         g \in {f \in FreeGraphs : Canonical(f.heap, <<f.out>> \o f.rewire)}}

ChainGraph(k) ==
  [fgraph |-> FunctionGraph(Chain(k), {1}, <<NumLeaves + k>>), heap |-> Chain(k)]

ChainTraversals ==
  UNION {[graph : {ChainGraph(k)}, node : Applies(Chain(k)), depth : (0 - 1)..(k + 1)] :
         k \in 1..MaxNodes}

InitClients ==
  /\ \E t \in FreeTraversals \cup ChainTraversals :
       /\ heap = t.graph.heap
       /\ snapshot = t.graph.heap
       /\ fgraph = t.graph.fgraph
       /\ node = t.node
       /\ depth = t.depth
       /\ node \in fgraph.variables
  /\ stack = <<>>
  /\ yielded = <<>>
  /\ pc = "generator"
  /\ var1 = None
  /\ var2 = None
  /\ givens = <<>>
  /\ copied = [vars |-> <<>>, givens |-> <<>>]
  /\ pending = <<>>
  /\ rval1 = FALSE
  /\ rval2 = FALSE
  /\ in_xs = <<>>
  /\ in_ys = <<>>
  /\ use_equal_computations = TRUE

graph == <<heap, snapshot, fgraph, node, depth>>
idle == <<call, copied, pending, rval1, rval2, lists>>

top == stack[Len(stack)]
top_var == outputs(heap, top.node)[top.out]
WithTop(f) == [stack EXCEPT ![Len(stack)] = f]

\* the generator is first asked for a value
Begin ==
  /\ pc = "generator"
  /\ stack' = <<frame(fgraph, heap, node, depth, 1)>>
  /\ pc' = "running"
  /\ UNCHANGED <<graph, idle, yielded>>

\* else: yield node.owner
Yield ==
  /\ pc = "running"
  /\ top.out <= Len(outputs(heap, top.node))
  /\ ~descends(top.depth)
  /\ yielded' = Append(yielded, owner(heap, top_var))
  /\ stack' = WithTop(frame(fgraph, heap, top.node, top.depth, top.out + 1))
  /\ UNCHANGED <<graph, idle, pc>>

\* if out_node == "output": continue
SkipOutput ==
  /\ pc = "running"
  /\ \E client \in top.todo :
       /\ is_output(client)
       /\ stack' = WithTop([top EXCEPT !.todo = @ \ {client}])
  /\ UNCHANGED <<graph, idle, pc, yielded>>

\* yield from get_clients_at_depth(fgraph, out_node, depth - 1); the
\* activations are never more than depth + 1 deep
Recurse ==
  /\ pc = "running"
  /\ Len(stack) <= depth
  /\ \E client \in top.todo :
       /\ ~is_output(client)
       /\ stack' = Append(WithTop([top EXCEPT !.todo = @ \ {client}]),
                          frame(fgraph, heap, client[1], shallower(top.depth), 1))
  /\ UNCHANGED <<graph, idle, pc, yielded>>

\* the clients of one output are done: the next output of the node
NextOutput ==
  /\ pc = "running"
  /\ top.out <= Len(outputs(heap, top.node))
  /\ descends(top.depth)
  /\ top.todo = {}
  /\ stack' = WithTop(frame(fgraph, heap, top.node, top.depth, top.out + 1))
  /\ UNCHANGED <<graph, idle, pc, yielded>>

\* an inner generator is exhausted
ReturnInner ==
  /\ pc = "running"
  /\ Len(stack) > 1
  /\ top.out > Len(outputs(heap, top.node))
  /\ stack' = SubSeq(stack, 1, Len(stack) - 1)
  /\ UNCHANGED <<graph, idle, pc, yielded>>

\* the generator is exhausted
Exhaust ==
  /\ pc = "running"
  /\ Len(stack) = 1
  /\ top.out > Len(outputs(heap, top.node))
  /\ stack' = <<>>
  /\ pc' = "exhausted"
  /\ UNCHANGED <<graph, idle, yielded>>

NextClients ==
  \/ Begin
  \/ Yield
  \/ SkipOutput
  \/ Recurse
  \/ NextOutput
  \/ ReturnInner
  \/ Exhaust

SpecClients == InitClients /\ [][NextClients]_vars

\* a generator that is consumed is run until it is exhausted
FairClients == SpecClients /\ WF_vars(NextClients)

\* ---- properties of is_same_graph ------------------------------------------

Raised == pc \in {"replace_raised", "assert_raised"}
Ended == pc = "done" \/ Raised
MergeDone == pc \in {"givens", "equal", "return", "done", "assert_raised"}
ListsDone == pc \in {"equal", "return", "done", "assert_raised"}

\* C1: whatever the call does and however it ends, the caller's cells (the
\* nodes' ops and ordered inputs, hence every owner and every client edge
\* among them) are what they were when the call began.
CallerGraphUnchanged == SubSeq(heap, 1, Len(snapshot)) = snapshot

\* a call that returned after replace or merge rewired its private copy
RewiredCopyReturned ==
  /\ pc = "done"
  /\ givens # <<>>
  /\ heap # deepcopy(snapshot, var1, var2, givens).heap

\* C2: whenever the comparator has been called, its result is the
\* merge-based one, so the assertion does not fail.
ResultsAgree ==
  /\ pc \in {"return", "done"} /\ use_equal_computations => rval2 = rval1
  /\ pc # "assert_raised"

\* var1 = x op c and var2 = y op c for two distinct leaves x and y
PlusOne(x, y) ==
  /\ x \in Leaves /\ y \in Leaves /\ x # y
  /\ owner(snapshot, var1) # None /\ owner(snapshot, var2) # None
  /\ snapshot[var1].op = snapshot[var2].op
  /\ Len(snapshot[var1].inputs) = 2 /\ Len(snapshot[var2].inputs) = 2
  /\ snapshot[var1].inputs[1] = x /\ snapshot[var2].inputs[1] = y
  /\ snapshot[var1].inputs[2] = snapshot[var2].inputs[2]

\* C3: is_same_graph(x + 1, y + 1, {x: y}) returns True and
\* is_same_graph(x + 1, y + 1, {}) returns False.
SubstitutionExample ==
  \A x, y \in Leaves :
    PlusOne(x, y) /\ Ended =>
      /\ givens = <<<<x, y>>>> => pc = "done" /\ rval1 = TRUE
      /\ givens = <<>> => pc = "done" /\ rval1 = FALSE

SubstitutionExampleReturned ==
  \E x, y \in Leaves :
    /\ PlusOne(x, y)
    /\ snapshot[var1].inputs[2] \in Leaves \ {x, y}
    /\ givens = <<<<x, y>>>>
    /\ pc = "done" /\ rval1 = TRUE

\* C4: is_same_graph(v, v) with no givens returns True.
Reflexive ==
  var1 = var2 /\ givens = <<>> /\ Ended => pc = "done" /\ rval1 = TRUE

ReflexiveReturned ==
  /\ var1 = var2 /\ givens = <<>>
  /\ owner(snapshot, var1) # None
  /\ \E i \in 1..2 : owner(snapshot, snapshot[var1].inputs[i]) # None
  /\ pc = "done" /\ rval1 = TRUE

\* var1 = x * (y * z) and var2 = (x * y) * z for leaves x, y, z
Associated ==
  /\ owner(snapshot, var1) # None /\ owner(snapshot, var2) # None
  /\ LET t1 == snapshot[var1]
         t2 == snapshot[var2]
     IN /\ Len(t1.inputs) = 2 /\ Len(t2.inputs) = 2
        /\ t1.op = t2.op
        /\ t1.inputs[1] \in Leaves /\ t2.inputs[2] \in Leaves
        /\ owner(snapshot, t1.inputs[2]) # None
        /\ owner(snapshot, t2.inputs[1]) # None
        /\ LET yz == snapshot[t1.inputs[2]]
               xy == snapshot[t2.inputs[1]]
           IN /\ yz.op = t1.op /\ xy.op = t1.op
              /\ yz.inputs = <<xy.inputs[2], t2.inputs[2]>>
              /\ xy.inputs = <<t1.inputs[1], yz.inputs[1]>>
              /\ Range(xy.inputs) \subseteq Leaves

\* C5: is_same_graph(x * (y * z), (x * y) * z) with no givens returns False.
AssociativitySensitive ==
  Associated /\ givens = <<>> /\ Ended => pc = "done" /\ rval1 = FALSE

AssociativityReturned ==
  /\ Associated /\ givens = <<>>
  /\ Cardinality(Range(snapshot[var1].inputs) \cup Range(snapshot[var2].inputs)
                 \cup Range(snapshot[snapshot[var1].inputs[2]].inputs)) = 5
  /\ pc = "done" /\ rval1 = FALSE

\* ---- the order of the substitutions ---------------------------------------

Orders(d) == {q \in [DOMAIN d -> Range(d)] : Range(q) = Range(d)}

\* what this run of is_same_graph_with_merge came to
Outcome == [returned |-> pc # "replace_raised", rval |-> rval1]

MergeEnded == pc \in {"givens", "replace_raised"}

\* no item's replace_by is another item's to_replace
NoChain(d) == \A i, j \in DOMAIN d : i # j => d[i][2] # d[j][1]

\* no item's replace_by is computed from a to_replace of the dict
Independent(h, d) == ancestors(h, values(d)) \cap keys(d) = {}

\* C9 as stated: with no chain among the items, every order of the items
\* that returns, returns the boolean this order returned.
OrderIndependentNoChain ==
  MergeEnded /\ pc = "givens" /\ NoChain(givens) =>
    \A q \in Orders(givens) :
      LET o == is_same_graph_with_merge(snapshot, var1, var2, q)
      IN o.returned => o.rval = rval1

\* C9 amended: when no replace_by is computed from a to_replace, every order
\* of the items ends as this one did: it raises, or it returns the same
\* boolean.
OrderIndependent ==
  MergeEnded /\ Independent(snapshot, givens) =>
    \A q \in Orders(givens) :
      is_same_graph_with_merge(snapshot, var1, var2, q) = Outcome

\* two independent items, both needed for the result
TwoItemsApplied ==
  /\ pc = "givens"
  /\ Len(givens) = 2
  /\ Independent(snapshot, givens)
  /\ rval1 = TRUE
  /\ \A i \in 1..2 :
       ~is_same_graph_with_merge(snapshot, var1, var2, <<givens[i]>>).rval

\* ---- when the comparator is called ----------------------------------------

Only1 == all_vars(snapshot, var1) \ all_vars(snapshot, var2)
Only2 == all_vars(snapshot, var2) \ all_vars(snapshot, var1)

Separable(it) ==
  \/ it[1] \in Only1 /\ it[2] \in Only2
  \/ it[1] \in Only2 /\ it[2] \in Only1

AllSeparable == \A i \in DOMAIN givens : Separable(givens[i])

\* C10: the comparator is called exactly when every item is cleanly
\* separable (none is, when givens is empty), with in_xs on var1's side
\* only, in_ys on var2's side only, and item i made of in_xs[i] and in_ys[i];
\* otherwise the merge-based result is returned with no comparison.
ComparatorCalledWhenSeparable ==
  /\ AllSeparable => pc # "replace_raised"
  /\ pc = "equal" => AllSeparable
  /\ ListsDone =>
       /\ use_equal_computations = AllSeparable
       /\ AllSeparable =>
            /\ Len(in_xs) = Len(givens) /\ Len(in_ys) = Len(givens)
            /\ \A i \in DOMAIN givens :
                 /\ in_xs[i] \in Only1
                 /\ in_ys[i] \in Only2
                 /\ {in_xs[i], in_ys[i]} = {givens[i][1], givens[i][2]}
       /\ ~AllSeparable => pc \in {"return", "done"} /\ rval2 = FALSE

\* one item of each direction, and the comparator about to be called
BothDirectionsSeparable ==
  /\ pc = "equal"
  /\ Len(givens) = 2
  /\ givens[1][1] \in Only1
  /\ givens[2][1] \in Only2

\* ---- properties of get_clients_at_depth -----------------------------------

IsChain ==
  /\ Len(heap) > NumLeaves
  /\ heap = Chain(Len(heap) - NumLeaves)
  /\ fgraph = ChainGraph(Len(heap) - NumLeaves).fgraph

\* C6: on a chain, depth d >= 0 yields the one node d steps after the start
\* node, and nothing when the chain ends before that.
ChainYieldsNodeAtDepth ==
  IsChain /\ depth >= 0 /\ pc = "exhausted" =>
    yielded = IF node + depth <= Len(heap) THEN <<node + depth>> ELSE <<>>

ChainNodeYielded ==
  /\ IsChain /\ depth >= 2 /\ pc = "exhausted"
  /\ yielded = <<node + depth>>

\* C7: a negative depth yields no node.
NegativeDepthYieldsNothing == depth < 0 => yielded = <<>>

\* the nodes reached from the nodes of S through client edges
RECURSIVE downstream(_, _)
downstream(fg, S) ==
  LET T == S \cup {c[1] : c \in {d \in UNION {fg.clients[v] : v \in S} : ~is_output(d)}}
  IN IF T = S THEN S ELSE downstream(fg, T)

after(fg, v) ==
  downstream(fg, {c[1] : c \in {d \in fg.clients[v] : ~is_output(d)}})

CycleReachable == \E v \in downstream(fgraph, {node}) : v \in after(fgraph, v)

\* C8 as stated: with a cycle of client edges reachable from node, the
\* traversal (here with a depth that enters the cycle) does not finish.
CycleNeverExhausted == CycleReachable /\ depth > 0 => pc # "exhausted"

\* C8 amended: the traversal finishes on every graph, cyclic or not.
AlwaysExhausted == <>(pc = "exhausted")

CycleExhausted ==
  /\ CycleReachable
  /\ depth = MaxDepth
  /\ pc = "exhausted"
  /\ yielded # <<>>

====
